---------------------------- MODULE Spec2Model ----------------------------
(***************************************************************************)
(* Model of epistemic_infrastructure_app.py: a Streamlit script that edits  *)
(* a DiagramConfig held in the session state and rebuilds a PyVis graph on  *)
(* every script run.                                                        *)
(*                                                                          *)
(* Representation of Python values:                                         *)
(*   str    a TLA+ string                                                   *)
(*   list   a sequence                                                      *)
(*   dict   a function whose domain is the set of keys                      *)
(*   tuple  the record [tuple |-> <<...>>]  (so that a list is not a tuple) *)
(*   Edge   a record with the field class = "Edge" (so that the dict        *)
(*          asdict(e) is not an Edge)                                       *)
(* A text typed by the user is a sequence of pieces: a piece is one         *)
(* character the code looks at (",", " ", "→", "-", ">") or a word, a run   *)
(* of characters the code never inspects.                                   *)
(* A JSON text is the document json.dumps writes and json.loads reads: a    *)
(* tree of tagged values, or the token Malformed for a text json.loads      *)
(* rejects.                                                                 *)
(***************************************************************************)
EXTENDS Integers, Sequences, FiniteSets, TLC

VARIABLES
    cfg,       \* st.session_state.cfg
    net,       \* the graph build_network(cfg) returned in the last run
    notices,   \* st.success / st.error messages of the last run
    event,     \* the user's input that triggered the last run
    runs       \* script runs so far

vars == <<cfg, net, notices, event, runs>>

\* Number of user-triggered script runs explored after the first one.
MaxRuns == 2

-----------------------------------------------------------------------------
\* F(v), with v evaluated once: a local variable of the code
Let(v, F(_)) == CHOOSE r \in {F(x) : x \in {v}} : TRUE

-----------------------------------------------------------------------------
(* Data model *)

Edge(source, target, label) ==
    [class |-> "Edge", source |-> source, target |-> target, label |-> label]

Tuple(items) == [tuple |-> items]

default_inner_radius == 200
default_outer_radius == 380
default_start_angle_deg == 90

RECURSIVE Product(_, _)
\* [(o,i) for o in outer for i in inner]
Product(outer, inner) ==
    IF outer = <<>> THEN <<>>
    ELSE [k \in 1..Len(inner) |-> Tuple(<<Head(outer), inner[k]>>)]
         \o Product(Tail(outer), inner)

default_config ==
    LET inner_nodes == <<"Knowledge", "Models", "Data", "Objects", "Interactions">>
        outer_nodes == <<"Concepts", "Standards", "Metadata", "Formats", "Protocols">>
    IN [inner_nodes |-> inner_nodes,
        inner_labels |->
            [n \in {"Knowledge", "Models", "Data", "Objects", "Interactions"} |->
                CASE n = "Models" -> "Models\n(representing the world)"
                  [] n = "Interactions" -> "Interactions\nwith the world"
                  [] OTHER -> n],
        inner_edges |-> <<Edge("Models", "Knowledge", "Interpreted as"),
                          Edge("Data", "Models", "Ordered as"),
                          Edge("Objects", "Data", "Processed as"),
                          Edge("Interactions", "Objects", "Produce"),
                          Edge("Knowledge", "Interactions", "Informs further")>>,
        outer_nodes |-> outer_nodes,
        outer_labels |->
            [n \in {"Concepts", "Standards", "Metadata", "Formats", "Protocols"} |->
                IF n = "Standards" THEN "Schema/\nStandards" ELSE n],
        outer_edges |-> <<Edge("Concepts", "Standards", ""),
                          Edge("Standards", "Metadata", ""),
                          Edge("Metadata", "Formats", ""),
                          Edge("Formats", "Protocols", ""),
                          Edge("Protocols", "Concepts", "")>>,
        cross_links |-> Product(outer_nodes, inner_nodes),
        show_cross_links |-> TRUE,
        lock_positions |-> TRUE,
        inner_radius |-> default_inner_radius,
        outer_radius |-> default_outer_radius,
        start_angle_deg |-> default_start_angle_deg,
        physics |-> FALSE]

-----------------------------------------------------------------------------
(* Python helpers the script uses *)

Range(s) == {s[k] : k \in 1..Len(s)}

\* d.get(k, default)
Get(d, k, default) == IF k \in DOMAIN d THEN d[k] ELSE default

Whitespace == {" "}

\* str.strip(): from the first to the last piece that is no whitespace
Strip(t) ==
    LET solid == {k \in 1..Len(t) : t[k] \notin Whitespace}
    IN IF solid = {} THEN <<>>
       ELSE SubSeq(t, CHOOSE k \in solid : \A h \in solid : k <= h,
                      CHOOSE k \in solid : \A h \in solid : k >= h)

\* Position of the first occurrence of pat in t at or after start, 0 when none
FindFrom(t, pat, start) ==
    LET hits == {k \in start..(Len(t) - Len(pat) + 1) : SubSeq(t, k, k + Len(pat) - 1) = pat}
    IN IF hits = {} THEN 0 ELSE CHOOSE k \in hits : \A h \in hits : k <= h

Find(t, pat) == FindFrom(t, pat, 1)

\* pat in t
Contains(t, pat) == Find(t, pat) # 0

RECURSIVE SplitFrom(_, _, _)
\* The parts of t.split(sep) that begin at or after start
SplitFrom(t, sep, start) ==
    Let(FindFrom(t, sep, start), LAMBDA k :
        IF k = 0 THEN <<SubSeq(t, start, Len(t))>>
        ELSE <<SubSeq(t, start, k - 1)>> \o SplitFrom(t, sep, k + Len(sep)))

\* t.split(sep): always at least one part
Split(t, sep) == SplitFrom(t, sep, 1)

\* t.split(sep, 1) when sep is in t: the two parts around its first occurrence
SplitOnce(t, sep) ==
    Let(Find(t, sep), LAMBDA k : <<SubSeq(t, 1, k - 1), SubSeq(t, k + Len(sep), Len(t))>>)

RECURSIVE Str(_)
\* The Python string a text stands for
Str(t) == IF t = <<>> THEN "" ELSE Head(t) \o Str(Tail(t))

Comma == <<",">>
Arrow == <<"→">>
AsciiArrow == <<"-", ">">>

\* [x.strip() for x in text.split(",") if x.strip()]
ParseNames(text) ==
    Let(SelectSeq(Split(text, Comma), LAMBDA x : Strip(x) # <<>>), LAMBDA kept :
        [k \in 1..Len(kept) |-> Str(Strip(kept[k]))])


-----------------------------------------------------------------------------
(* Serialization: to_json and from_json *)

JStr(s) == [t |-> "string", s |-> s]
JNum(n) == [t |-> "number", n |-> n]
JBool(b) == [t |-> "bool", b |-> b]
JArr(items) == [t |-> "array", items |-> items]
JObj(members) == [t |-> "object", members |-> members]
\* A text json.loads raises JSONDecodeError on
Malformed == [t |-> "malformed"]

EdgeFields == {"source", "target", "label"}

\* dataclasses.asdict on an Edge
asdict_Edge(e) == [k \in EdgeFields |-> e[k]]

\* json.dumps of a list (or a tuple) whose items D encodes
DumpsList(s, D(_)) == JArr([k \in 1..Len(s) |-> D(s[k])])

\* json.dumps of a dict of strings
DumpsStrDict(d) == JObj([k \in DOMAIN d |-> JStr(d[k])])

DumpsStrList(s) == DumpsList(s, JStr)

DumpsEdgeDict(d) == DumpsStrDict(d)

\* a tuple is written as an array
DumpsPair(p) == DumpsStrList(p.tuple)

\* enc = asdict(cfg), with the two edge lists as lists of dicts
Encoded(c) ==
    [c EXCEPT !.inner_edges = [k \in 1..Len(c.inner_edges) |-> asdict_Edge(c.inner_edges[k])],
              !.outer_edges = [k \in 1..Len(c.outer_edges) |-> asdict_Edge(c.outer_edges[k])]]

\* json.dumps(enc)
DumpsConfig(enc) ==
    JObj([k \in DOMAIN enc |->
          CASE k \in {"inner_nodes", "outer_nodes"} -> DumpsStrList(enc[k])
            [] k \in {"inner_labels", "outer_labels"} -> DumpsStrDict(enc[k])
            [] k \in {"inner_edges", "outer_edges"} -> DumpsList(enc[k], DumpsEdgeDict)
            [] k = "cross_links" -> DumpsList(enc[k], DumpsPair)
            [] k \in {"show_cross_links", "lock_positions", "physics"} -> JBool(enc[k])
            [] OTHER -> JNum(enc[k])])

to_json(c) == Let(Encoded(c), DumpsConfig)

RECURSIVE Loads(_)
\* json.loads of a well-formed document: object -> dict, array -> list
Loads(j) ==
    CASE j.t = "string" -> j.s
      [] j.t = "number" -> j.n
      [] j.t = "bool" -> j.b
      [] j.t = "array" -> [k \in 1..Len(j.items) |-> Loads(j.items[k])]
      [] j.t = "object" -> [k \in DOMAIN j.members |-> Loads(j.members[k])]

\* Edge(**e) raises TypeError unless e gives source and target and only Edge fields
EdgeArgsOk(e) == {"source", "target"} \subseteq DOMAIN e /\ DOMAIN e \subseteq EdgeFields

\* Mutant: the label of a decoded edge is dropped
EdgeFromDict_NoLabel(e) == Edge(e.source, e.target, "")

\* Edge(**e)
EdgeFromDict(e) == Edge(e.source, e.target, Get(e, "label", ""))

LoadEdges(raw_edges) == [k \in 1..Len(raw_edges) |-> EdgeFromDict(raw_edges[k])]

\* [tuple(x) for x in raw.get("cross_links", [])]
LoadCrossLinks(raw) ==
    LET xs == Get(raw, "cross_links", <<>>)
    IN [k \in 1..Len(xs) |-> Tuple(xs[k])]

RequiredKeys ==
    <<"inner_nodes", "inner_labels", "inner_edges", "outer_nodes", "outer_labels", "outer_edges">>

\* The exception the DiagramConfig(...) call raises on raw, "" when it raises none
config_error(raw) ==
         LET bad(k) == \/ RequiredKeys[k] \notin DOMAIN raw
                       \/ /\ RequiredKeys[k] \in {"inner_edges", "outer_edges"}
                          /\ \E e \in Range(raw[RequiredKeys[k]]) : ~EdgeArgsOk(e)
             fails == {k \in 1..Len(RequiredKeys) : bad(k)}
         IN IF fails = {} THEN ""
            ELSE LET k == CHOOSE x \in fails : \A y \in fails : x <= y
                 IN IF RequiredKeys[k] \notin DOMAIN raw THEN "KeyError" ELSE "TypeError"

\* The exception from_json raises on s, "" when it raises none
from_json_error(s) ==
    IF s.t = "malformed" THEN "JSONDecodeError"
    ELSE IF s.t # "object" THEN "TypeError"
    ELSE Let(Loads(s), config_error)

\* The DiagramConfig(...) call on raw when it raises nothing
config_value(raw) ==
       [inner_nodes |-> raw["inner_nodes"],
        inner_labels |-> raw["inner_labels"],
        inner_edges |-> LoadEdges(raw["inner_edges"]),
        outer_nodes |-> raw["outer_nodes"],
        outer_labels |-> raw["outer_labels"],
        outer_edges |-> LoadEdges(raw["outer_edges"]),
        cross_links |-> LoadCrossLinks(raw),
        show_cross_links |-> Get(raw, "show_cross_links", TRUE),
        lock_positions |-> Get(raw, "lock_positions", TRUE),
        inner_radius |-> Get(raw, "inner_radius", default_inner_radius),
        outer_radius |-> Get(raw, "outer_radius", default_outer_radius),
        start_angle_deg |-> Get(raw, "start_angle_deg", default_start_angle_deg),
        physics |-> Get(raw, "physics", FALSE)]

\* Mutant: a text that cannot be decoded gives the default configuration
from_json_Fallback(s) ==
    Let(from_json_error(s), LAMBDA err :
        IF err = "" THEN [ok |-> TRUE, cfg |-> Let(Loads(s), config_value)]
        ELSE [ok |-> TRUE, cfg |-> default_config])

\* from_json: the configuration, or the exception raised
from_json(s) ==
    Let(from_json_error(s), LAMBDA err :
        IF err = "" THEN [ok |-> TRUE, cfg |-> Let(Loads(s), config_value)]
        ELSE [ok |-> FALSE, error |-> err])

-----------------------------------------------------------------------------
(* Graph builder *)

RECURSIVE edge_label(_, _, _)
\* First edge of the pool between u and v, in either direction
edge_label(u, v, pool) ==
    IF pool = <<>> THEN ""
    ELSE LET e == Head(pool)
         IN IF (e.source = u /\ e.target = v) \/ (e.source = v /\ e.target = u)
            THEN e.label
            ELSE edge_label(u, v, Tail(pool))

\* net.add_node for every name of one ring; positions are left out
RingNodes(names, labels, lock_positions, borderWidth) ==
    [k \in 1..Len(names) |->
        [id |-> names[k], label |-> Get(labels, names[k], names[k]),
         physics |-> ~lock_positions, borderWidth |-> borderWidth]]

\* Outer ring: node i to node i+1, no arrowhead
OuterRingEdges(c) ==
    LET n == Len(c.outer_nodes)
    IN [k \in 1..n |->
          LET u == c.outer_nodes[k]
              v == c.outer_nodes[(k % n) + 1]
          IN [from |-> u, to |-> v, label |-> edge_label(u, v, c.outer_edges),
              arrows |-> "", dashes |-> FALSE]]

\* Mutant: the inner ring is walked like the outer one, node i to node i+1
InnerRingEdges_Forward(c) ==
    LET n == Len(c.inner_nodes)
    IN [k \in 1..n |->
          LET u == c.inner_nodes[k]
              v == c.inner_nodes[(k % n) + 1]
          IN [from |-> u, to |-> v, label |-> edge_label(u, v, c.inner_edges),
              arrows |-> "to", dashes |-> FALSE]]

\* Inner ring: node i to node i-1, arrowhead at the target
InnerRingEdges(c) ==
    LET n == Len(c.inner_nodes)
    IN [k \in 1..n |->
          LET u == c.inner_nodes[k]
              v == c.inner_nodes[((k - 2) % n) + 1]
          IN [from |-> u, to |-> v, label |-> edge_label(u, v, c.inner_edges),
              arrows |-> "to", dashes |-> FALSE]]

\* Mutant: only the outer end of a cross-link is looked up
CrossLinkEdges_OuterOnly(c) ==
    IF c.show_cross_links
    THEN Let(SelectSeq(c.cross_links, LAMBDA p : p.tuple[1] \in Range(c.outer_nodes)),
             LAMBDA kept :
                [k \in 1..Len(kept) |->
                    [from |-> kept[k].tuple[1], to |-> kept[k].tuple[2], label |-> "",
                     arrows |-> "to", dashes |-> TRUE]])
    ELSE <<>>

\* Cross-links whose two ends are nodes, in stored order
CrossLinkEdges(c) ==
    IF c.show_cross_links
    THEN Let(SelectSeq(c.cross_links,
                       LAMBDA p : p.tuple[1] \in Range(c.outer_nodes)
                                  /\ p.tuple[2] \in Range(c.inner_nodes)),
             LAMBDA kept :
                [k \in 1..Len(kept) |->
                    [from |-> kept[k].tuple[1], to |-> kept[k].tuple[2], label |-> "",
                     arrows |-> "to", dashes |-> TRUE]])
    ELSE <<>>

build_network(c) ==
    [physics |-> c.physics,
     nodes |-> RingNodes(c.outer_nodes, c.outer_labels, c.lock_positions, 1)
               \o RingNodes(c.inner_nodes, c.inner_labels, c.lock_positions, 2),
     edges |-> OuterRingEdges(c) \o InnerRingEdges(c) \o CrossLinkEdges(c)]

-----------------------------------------------------------------------------
(* The script, top to bottom.  ev is the one input of the user that         *)
(* triggered the run; every other widget returns the value it shows.        *)

\* The value a sidebar widget returns
Widget(ev, name, shown) == IF ev.kind = name THEN ev.value ELSE shown

Sidebar(c, ev) ==
    [c EXCEPT !.physics = Widget(ev, "physics", @),
              !.lock_positions = Widget(ev, "lock_positions", @),
              !.show_cross_links = Widget(ev, "show_cross_links", @),
              !.inner_radius = Widget(ev, "inner_radius", @),
              !.outer_radius = Widget(ev, "outer_radius", @),
              !.start_angle_deg = Widget(ev, "start_angle_deg", @)]

MinNodes == 3

\* Mutant: the node list is replaced whatever the number of names
UpdateOrder_NoMinimum(nodes, labels, tier, ev) ==
    IF ev.kind = "update_order" /\ ev.tier = tier
    THEN Let(ParseNames(ev.text), LAMBDA names :
            [nodes |-> names,
             labels |-> [n \in Range(names) |-> Get(labels, n, n)],
             notices |-> IF Len(names) >= MinNodes
                         THEN <<"success: " \o tier \o " order updated">>
                         ELSE <<"error: at least 3 " \o tier \o " nodes">>])
    ELSE [nodes |-> nodes, labels |-> labels, notices |-> <<>>]

\* "Update inner/outer order/labels": the node list and labels after the button
UpdateOrder(nodes, labels, tier, ev) ==
    IF ev.kind = "update_order" /\ ev.tier = tier
    THEN Let(ParseNames(ev.text), LAMBDA names :
            IF Len(names) >= MinNodes
            THEN [nodes |-> names,
                  labels |-> [n \in Range(names) |-> Get(labels, n, n)],
                  notices |-> <<"success: " \o tier \o " order updated">>]
            ELSE [nodes |-> nodes, labels |-> labels,
                  notices |-> <<"error: at least 3 " \o tier \o " nodes">>])
    ELSE [nodes |-> nodes, labels |-> labels, notices |-> <<>>]

\* for n in nodes: labels[n] = st.text_input(..., value=labels.get(n, n))
EditLabels(nodes, labels, tier, ev) ==
    [n \in DOMAIN labels \cup Range(nodes) |->
        IF n \in Range(nodes)
        THEN IF ev.kind = "label" /\ ev.tier = tier /\ ev.node = n
             THEN ev.value
             ELSE Get(labels, n, n)
        ELSE labels[n]]

\* The editor's lookup: the label of the last edge from u to v, "" when none
last_label(u, v, pool) ==
    LET hits == {k \in 1..Len(pool) : pool[k].source = u /\ pool[k].target = v}
    IN IF hits = {} THEN ""
       ELSE pool[CHOOSE k \in hits : \A h \in hits : k >= h].label

\* Mutant: an inserted edge replaces the stored edges into the same node
Upsert_DropStale(pool, u, v, new_label) ==
    IF \E k \in 1..Len(pool) : pool[k].source = u /\ pool[k].target = v
    THEN [k \in 1..Len(pool) |->
            IF pool[k].source = u /\ pool[k].target = v
            THEN [pool[k] EXCEPT !.label = new_label]
            ELSE pool[k]]
    ELSE Append(SelectSeq(pool, LAMBDA e : e.target # v), Edge(u, v, new_label))

\* Update or insert the edge from u to v
Upsert(pool, u, v, new_label) ==
    IF \E k \in 1..Len(pool) : pool[k].source = u /\ pool[k].target = v
    THEN [k \in 1..Len(pool) |->
            IF pool[k].source = u /\ pool[k].target = v
            THEN [pool[k] EXCEPT !.label = new_label]
            ELSE pool[k]]
    ELSE Append(pool, Edge(u, v, new_label))

RECURSIVE EditEdges(_, _, _, _, _)
\* for i in range(len(nodes)): the edge editor of ring position i and after
EditEdges(nodes, pool, tier, ev, i) ==
    IF i > Len(nodes) THEN pool
    ELSE LET u == nodes[i]
             v == nodes[(i % Len(nodes)) + 1]
             label_val == last_label(u, v, pool)
             new_label == IF ev.kind = "edge" /\ ev.tier = tier /\ ev.index = i
                          THEN ev.value
                          ELSE label_val
         IN Let(Upsert(pool, u, v, new_label), LAMBDA updated :
                EditEdges(nodes, updated, tier, ev, i + 1))

\* One column of the node editors
NodeEditor(nodes, labels, pool, tier, ev) ==
    Let(UpdateOrder(nodes, labels, tier, ev), LAMBDA upd :
        [nodes |-> upd.nodes,
         labels |-> EditLabels(upd.nodes, upd.labels, tier, ev),
         edges |-> EditEdges(upd.nodes, pool, tier, ev, 1),
         notices |-> upd.notices])

\* Mutant: the two names are not trimmed
ParsePair_NoStrip(a, sep) ==
    Let(SplitOnce(a, sep), LAMBDA oi : Tuple(<<Str(oi[1]), Str(oi[2])>>))

\* o,i = [x.strip() for x in a.split(sep, 1)], and the tuple (o,i)
ParsePair(a, sep) ==
    Let(SplitOnce(a, sep), LAMBDA oi : Tuple(<<Str(Strip(oi[1])), Str(Strip(oi[2]))>>))

RECURSIVE ParsePairs(_)
\* The loop over the tokens of pairs_in.split(",")
ParsePairs(tokens) ==
    IF tokens = <<>> THEN <<>>
    ELSE LET a == Strip(Head(tokens))
             rest == ParsePairs(Tail(tokens))
         IN IF Contains(a, Arrow) THEN <<ParsePair(a, Arrow)>> \o rest
            ELSE IF Contains(a, AsciiArrow) THEN <<ParsePair(a, AsciiArrow)>> \o rest
            ELSE rest

\* Mutant: a blank text restores the cross-links of the default configuration
SetCrossLinksButton_Defaults(c, ev) ==
    IF ev.kind = "set_cross_links"
    THEN LET pairs == IF Strip(ev.text) # <<>>
                      THEN Let(Split(ev.text, Comma), ParsePairs)
                      ELSE default_config.cross_links
         IN [cfg |-> [c EXCEPT !.cross_links = pairs],
             notices |-> <<"success: cross-links updated">>]
    ELSE [cfg |-> c, notices |-> <<>>]

\* "Set cross-links"
SetCrossLinksButton(c, ev) ==
    IF ev.kind = "set_cross_links"
    THEN LET pairs == IF Strip(ev.text) # <<>>
                      THEN Let(Split(ev.text, Comma), ParsePairs)
                      ELSE Product(c.outer_nodes, c.inner_nodes)
         IN [cfg |-> [c EXCEPT !.cross_links = pairs],
             notices |-> <<"success: cross-links updated">>]
    ELSE [cfg |-> c, notices |-> <<>>]

\* The script from the node editors to the end, on the configuration c
Body(c, ev) ==
    Let(NodeEditor(c.inner_nodes, c.inner_labels, c.inner_edges, "inner", ev), LAMBDA inner :
    Let(NodeEditor(c.outer_nodes, c.outer_labels, c.outer_edges, "outer", ev), LAMBDA outer :
    Let([c EXCEPT !.inner_nodes = inner.nodes, !.inner_labels = inner.labels,
                  !.inner_edges = inner.edges, !.outer_nodes = outer.nodes,
                  !.outer_labels = outer.labels, !.outer_edges = outer.edges], LAMBDA c2 :
    Let(SetCrossLinksButton(c2, ev), LAMBDA x :
        [cfg |-> x.cfg, net |-> build_network(x.cfg),
         notices |-> inner.notices \o outer.notices \o x.notices]))))

NoInput == [kind |-> "none"]

\* One script run.  A successful import replaces the session's configuration
\* and reruns the script at once, with no input.
ScriptRun(c, ev) ==
    Let(Sidebar(c, ev), LAMBDA c1 :
        IF ev.kind = "import"
        THEN Let(from_json(ev.text), LAMBDA r :
                 IF r.ok
                 THEN Let(Sidebar(r.cfg, NoInput), LAMBDA c2 : Body(c2, NoInput))
                 ELSE [Body(c1, ev) EXCEPT
                          !.notices = <<"error: Import failed: " \o r.error>> \o @])
        ELSE Body(c1, ev))

-----------------------------------------------------------------------------
(* Inputs of the user *)

\* Texts for "Inner nodes (comma-separated, order matters)"
InnerOrderTexts ==
    {<<>>,
     <<"Data">>,
     <<"Data", ",", " ", ",", "Knowledge">>,
     <<"Data", ",", "Knowledge", ",", "Theory">>,
     <<" ", "Theory", " ", ",", " ", "Data", ",", "Knowledge", ",">>,
     <<"Knowledge", ",", " ", "Models", ",", " ", "Data", ",", " ", "Objects">>,
     <<"Models", ",", "Knowledge", ",", "Data", ",", "Objects", ",", "Interactions">>,
     <<"New", " ", "Node", ",", "Data", ",", "Models">>}

\* Texts for "Outer nodes (comma-separated, order matters)"
OuterOrderTexts ==
    {<<>>,
     <<" ", ",", ",">>,
     <<"Concepts", ",", "Metadata">>,
     <<"Concepts", ",", " ", "Metadata", ",", " ", "Policy">>,
     <<"Standards", ",", "Concepts", ",", "Metadata", ",", "Formats", ",", "Protocols">>,
     <<"Protocols", ",", "Formats", ",", "Metadata", ",", "Standards">>}

\* Texts for "Outer→Inner pairs (comma-separated)"
PairTexts ==
    {<<>>,
     <<" ", " ">>,
     <<"Outer", "→", "Inner", ",", " ", "Metadata", "-", ">", "Data">>,
     <<"Concepts">>,
     <<"Metadata", "-", ">", "Data", ",", "Concepts", ",", "Policy", "→", "Theory">>,
     <<"Concepts", " ", "→", " ", "Knowledge", ",", " ", "Concepts", "→", "Knowledge">>,
     <<"A", "-", ">", "B", "→", "C">>,
     <<"A", "→", "B", "→", "C">>,
     <<"Metadata", "→">>,
     <<"A", "-", "B", ">", "C">>}

NodeLabelInputs == {"L"}
EdgeLabelInputs == {"X"}

\* One end of each slider
SliderInputs ==
    [inner_radius |-> {120}, outer_radius |-> {600}, start_angle_deg |-> {360}]

\* A configuration saved elsewhere: three nodes a ring, a label missing, a
\* stale edge, a cross-link to a node that does not exist
SampleConfig ==
    [inner_nodes |-> <<"Data", "Models", "Theory">>,
     inner_labels |-> [n \in {"Data", "Theory"} |-> IF n = "Data" THEN "Data\nsets" ELSE n],
     inner_edges |-> <<Edge("Data", "Models", "feeds"), Edge("Gone", "Data", "stale")>>,
     outer_nodes |-> <<"Concepts", "Policy", "Metadata">>,
     outer_labels |-> [n \in {"Concepts"} |-> "Ideas"],
     outer_edges |-> <<Edge("Policy", "Concepts", "frames")>>,
     cross_links |-> <<Tuple(<<"Policy", "Theory">>), Tuple(<<"Nowhere", "Data">>)>>,
     show_cross_links |-> TRUE,
     lock_positions |-> FALSE,
     inner_radius |-> 120,
     outer_radius |-> 600,
     start_angle_deg |-> 0,
     physics |-> TRUE]

OptionalKeys ==
    {"cross_links", "show_cross_links", "lock_positions", "inner_radius", "outer_radius",
     "start_angle_deg", "physics"}

\* The document j without the members named in keys
Without(j, keys) == JObj([k \in DOMAIN j.members \ keys |-> j.members[k]])

\* Texts for "Paste config JSON to import": no JSON at all, JSON that is no
\* object, a saved configuration with one required field missing, one saved
\* by an older schema (required fields only), a full one, and the download
\* of the configuration c itself
ImportTexts(c) ==
    <<Malformed, JArr(<<>>)>>
    \o [k \in 1..Len(RequiredKeys) |-> Without(to_json(SampleConfig), {RequiredKeys[k]})]
    \o <<Without(to_json(SampleConfig), OptionalKeys), to_json(SampleConfig), to_json(c)>>

-----------------------------------------------------------------------------
(* Specification: one action per thing the user can do *)

Init ==
    /\ cfg = default_config
    /\ net = [physics |-> FALSE, nodes |-> <<>>, edges |-> <<>>]
    /\ notices = <<>>
    /\ event = NoInput
    /\ runs = 0

Run(ev) ==
    \E e \in {ev} : \E r \in {ScriptRun(cfg, e)} :
        /\ cfg' = r.cfg
        /\ net' = r.net
        /\ notices' = r.notices
        /\ event' = e
        /\ runs' = runs + 1

\* The widgets exist once the script has run
Ready == runs >= 1 /\ runs <= MaxRuns

\* The first run of the session
Start == runs = 0 /\ Run(NoInput)

Toggle ==
    /\ Ready
    /\ \E w \in {"physics", "lock_positions", "show_cross_links"} :
          Run([kind |-> w, value |-> ~cfg[w]])

Slide ==
    /\ Ready
    /\ \E w \in DOMAIN SliderInputs : \E v \in SliderInputs[w] \ {cfg[w]} :
          Run([kind |-> w, value |-> v])

ImportJSON ==
    /\ Ready
    /\ \E texts \in {ImportTexts(cfg)} : \E k \in 1..Len(texts) :
          Run([kind |-> "import", text |-> texts[k]])

UpdateInnerOrder ==
    /\ Ready
    /\ \E t \in InnerOrderTexts : Run([kind |-> "update_order", tier |-> "inner", text |-> t])

UpdateOuterOrder ==
    /\ Ready
    /\ \E t \in OuterOrderTexts : Run([kind |-> "update_order", tier |-> "outer", text |-> t])

Nodes(c, tier) == IF tier = "inner" THEN c.inner_nodes ELSE c.outer_nodes
Edges(c, tier) == IF tier = "inner" THEN c.inner_edges ELSE c.outer_edges

EditNodeLabel ==
    /\ Ready
    /\ \E tier \in {"inner", "outer"} : \E n \in Range(Nodes(cfg, tier)) :
          \E v \in NodeLabelInputs :
              Run([kind |-> "label", tier |-> tier, node |-> n, value |-> v])

EditEdgeLabel ==
    /\ Ready
    /\ \E tier \in {"inner", "outer"} : \E i \in 1..Len(Nodes(cfg, tier)) :
          \E v \in EdgeLabelInputs :
              Run([kind |-> "edge", tier |-> tier, index |-> i, value |-> v])

SetCrossLinks ==
    /\ Ready
    /\ \E t \in PairTexts : Run([kind |-> "set_cross_links", text |-> t])

Next ==
    \/ Start
    \/ Toggle
    \/ Slide
    \/ ImportJSON
    \/ UpdateInnerOrder
    \/ UpdateOuterOrder
    \/ EditNodeLabel
    \/ EditEdgeLabel
    \/ SetCrossLinks

Spec == Init /\ [][Next]_vars

-----------------------------------------------------------------------------
(* Properties *)

IsUpdate(ev, tier) == ev.kind = "update_order" /\ ev.tier = tier

HasNotice(ns, text) == \E k \in 1..Len(ns) : ns[k] = text

\* C1: decoding the encoding of the session's configuration raises nothing
\* and gives back every field: the node lists, the label maps, the edges as
\* Edge values, the cross-links as tuples in the same order, the booleans,
\* the radii and the start angle.
C1_RoundTrip ==
    \E r \in {from_json(to_json(cfg))} : r.ok /\ r.cfg = cfg

\* An edited configuration (cross-links replaced by two pairs, ten inner
\* edges stored) was downloaded and imported again.
C1_Witness ==
    /\ event.kind = "import"
    /\ event.text = to_json(cfg)
    /\ notices = <<>>
    /\ cfg.cross_links = <<Tuple(<<"Outer", "Inner">>), Tuple(<<"Metadata", "Data">>)>>
    /\ Len(cfg.inner_edges) = 10

\* C2: an order update with fewer than 3 names leaves the node list as it
\* was and reports the error; outside an import, a node list changes only
\* by an order update of its tier with at least 3 names, to those names.
C2_ShortOrderRejected ==
    [][\A tier \in {"inner", "outer"} :
         /\ (IsUpdate(event', tier) /\ Len(ParseNames(event'.text)) < 3)
                => /\ Nodes(cfg', tier) = Nodes(cfg, tier)
                   /\ notices' = <<"error: at least 3 " \o tier \o " nodes">>
         /\ (Nodes(cfg', tier) # Nodes(cfg, tier) /\ event'.kind # "import")
                => /\ IsUpdate(event', tier)
                   /\ Len(ParseNames(event'.text)) >= 3
                   /\ Nodes(cfg', tier) = ParseNames(event'.text)]_vars

\* Two names were submitted for the inner ring, after it had been edited.
C2_Witness ==
    /\ IsUpdate(event, "inner")
    /\ ParseNames(event.text) = <<"Data", "Knowledge">>
    /\ cfg.inner_nodes = <<"Data", "Knowledge", "Theory">>
    /\ HasNotice(notices, "error: at least 3 inner nodes")

\* A token of the text has neither separator
HasMalformedPair(text) ==
    \E tok \in Range(Split(text, Comma)) : ~Contains(tok, Arrow) /\ ~Contains(tok, AsciiArrow)

\* C3: "Set cross-links" on a non-empty text with a malformed pair reports
\* a parse error and leaves the configuration unchanged.
C3_MalformedPairRejected ==
    [][(event'.kind = "set_cross_links" /\ Strip(event'.text) # <<>>
            /\ HasMalformedPair(event'.text))
          => /\ cfg' = cfg
             /\ \E k \in 1..Len(notices') : notices'[k] # "success: cross-links updated"]_vars

\* The document lacks a required field
LacksRequired(j) ==
    j.t = "object" /\ \E k \in 1..Len(RequiredKeys) : RequiredKeys[k] \notin DOMAIN j.members

\* C4: an import of a text that is no JSON, or that lacks a required field,
\* reports the failure and leaves the session's configuration as it was; an
\* import changes the configuration only when decoding succeeds.
C4_FailedImportKeepsConfig ==
    [][event'.kind = "import" =>
         /\ (event'.text.t = "malformed" \/ LacksRequired(event'.text))
               => /\ cfg' = cfg
                  /\ Len(notices') = 1
                  /\ notices'[1] \in {"error: Import failed: JSONDecodeError",
                                      "error: Import failed: KeyError"}
         /\ cfg' # cfg => from_json(event'.text).ok]_vars

\* An import without outer_edges failed on an edited configuration.
C4_Witness ==
    /\ event.kind = "import"
    /\ event.text.t = "object"
    /\ "outer_edges" \notin DOMAIN event.text.members
    /\ notices = <<"error: Import failed: KeyError">>
    /\ cfg.inner_nodes = <<"Data", "Knowledge", "Theory">>

\* The inner-ring edges of a built graph, in the order they were added
InnerRing(n) == SelectSeq(n.edges, LAMBDA e : e.arrows = "to" /\ ~e.dashes)
CrossEdges(n) == SelectSeq(n.edges, LAMBDA e : e.dashes)

Labels(es) == [k \in 1..Len(es) |-> es[k].label]

\* Exactly 5 inner-ring edges, the k-th from node k to the node before it
DefaultRingShape(es) ==
    /\ Len(es) = 5
    /\ \A k \in 1..5 :
          /\ es[k].from = default_config.inner_nodes[k]
          /\ es[k].to = default_config.inner_nodes[IF k = 1 THEN 5 ELSE k - 1]
          /\ es[k].arrows = "to"

\* C5 as stated: the graph of the default configuration has 5 inner-ring
\* edges, node i to node i-1 from index 0 on, labelled in that order
\* "Interpreted as", "Ordered as", "Processed as", "Produce", "Informs further".
C5_AsStated ==
    runs = 1 =>
        /\ DefaultRingShape(InnerRing(net))
        /\ Labels(InnerRing(net)) =
              <<"Interpreted as", "Ordered as", "Processed as", "Produce", "Informs further">>

\* C5 amended: the same 5 edges; from index 0 on their labels are
\* "Informs further", "Interpreted as", "Ordered as", "Processed as", "Produce"
\* (the edge out of Knowledge comes first), in the first run of the session
\* and for build_network on the default configuration itself.
C5_DefaultInnerRing ==
    runs = 1 =>
        \A n \in {net, build_network(default_config)} :
            /\ DefaultRingShape(InnerRing(n))
            /\ Labels(InnerRing(n)) =
                  <<"Informs further", "Interpreted as", "Ordered as", "Processed as", "Produce">>

\* The first run has built the graph of the default configuration.
C5_Witness ==
    /\ runs = 1
    /\ cfg.inner_nodes = default_config.inner_nodes
    /\ Len(InnerRing(net)) = 5

\* Both ends of the k-th stored cross-link are nodes of their rings
LinkPresent(c, k) ==
    /\ c.cross_links[k].tuple[1] \in Range(c.outer_nodes)
    /\ c.cross_links[k].tuple[2] \in Range(c.inner_nodes)

\* With cross-links shown, the graph n holds one dashed edge for each stored
\* pair of c whose two ends are nodes, in stored order, and no other
EmitsPresentLinks(c, n) ==
    LET present == {k \in 1..Len(c.cross_links) : LinkPresent(c, k)}
        rank(k) == Cardinality({j \in present : j <= k})
        cross == CrossEdges(n)
    IN /\ Len(cross) = Cardinality(present)
       /\ \A k \in present :
             /\ cross[rank(k)].from = c.cross_links[k].tuple[1]
             /\ cross[rank(k)].to = c.cross_links[k].tuple[2]

\* C6: with show_cross_links true the built graph has a cross-link edge for
\* a stored pair exactly when both its ends are nodes; the others give no
\* edge and no error, and a run that neither sets the cross-links nor
\* imports leaves the stored sequence as it was, its build included.
C6_CrossLinksFiltered ==
    [][/\ cfg'.show_cross_links => EmitsPresentLinks(cfg', net')
       /\ event'.kind \notin {"set_cross_links", "import"}
             => cfg'.cross_links = cfg.cross_links]_vars

\* Cross-links are shown, one stored pair has both ends and an edge, another
\* names a node that does not exist and is still stored.
C6_Witness ==
    /\ runs >= 1
    /\ cfg.show_cross_links
    /\ \E k \in 1..Len(cfg.cross_links) : ~LinkPresent(cfg, k)
    /\ \E k \in 1..Len(cfg.cross_links) : LinkPresent(cfg, k)
    /\ Len(CrossEdges(net)) >= 1
    /\ Len(CrossEdges(net)) < Len(cfg.cross_links)

\* Every token of the text has a separator
AllPairsWellFormed(text) ==
    \A tok \in Range(Split(text, Comma)) : Contains(tok, Arrow) \/ Contains(tok, AsciiArrow)

\* The pair a well-formed token stands for: the text before and after its
\* first separator, trimmed
PairOf(tok) ==
    LET a == Strip(tok)
        sep == IF Contains(a, Arrow) THEN Arrow ELSE AsciiArrow
        at == Find(a, sep)
    IN Tuple(<<Str(Strip(SubSeq(a, 1, at - 1))),
               Str(Strip(SubSeq(a, at + Len(sep), Len(a))))>>)

\* C7: "Set cross-links" on a non-empty text whose tokens all have a
\* separator stores exactly the pairs of the tokens, in input order and
\* trimmed, whether or not the names are nodes; the text
\* 'Outer→Inner, Metadata->Data' stores [("Outer","Inner"), ("Metadata","Data")].
C7_PairsStoredInOrder ==
    (event.kind = "set_cross_links" /\ Strip(event.text) # <<>>
        /\ AllPairsWellFormed(event.text))
    => /\ \E toks \in {Split(event.text, Comma)} :
             /\ Len(cfg.cross_links) = Len(toks)
             /\ \A k \in 1..Len(toks) : cfg.cross_links[k] = PairOf(toks[k])
       /\ event.text = <<"Outer", "→", "Inner", ",", " ", "Metadata", "-", ">", "Data">>
             => cfg.cross_links = <<Tuple(<<"Outer", "Inner">>), Tuple(<<"Metadata", "Data">>)>>

\* The text of the example was submitted: its first pair names no node.
C7_Witness ==
    /\ event.kind = "set_cross_links"
    /\ event.text = <<"Outer", "→", "Inner", ",", " ", "Metadata", "-", ">", "Data">>
    /\ Len(cfg.cross_links) = 2
    /\ "Outer" \notin Range(cfg.outer_nodes)
    /\ HasNotice(notices, "success: cross-links updated")

\* C8: "Set cross-links" on an empty or whitespace-only text stores every
\* (o, i) of the current outer and inner node lists, outer-major, so
\* len(outer_nodes) * len(inner_nodes) pairs.
C8_BlankResetsToProduct ==
    (event.kind = "set_cross_links" /\ Strip(event.text) = <<>>)
    => LET no == Len(cfg.outer_nodes)
           ni == Len(cfg.inner_nodes)
       IN /\ Len(cfg.cross_links) = no * ni
          /\ \A a \in 1..no : \A b \in 1..ni :
                cfg.cross_links[(a - 1) * ni + b]
                    = Tuple(<<cfg.outer_nodes[a], cfg.inner_nodes[b]>>)

\* A whitespace-only text was submitted after the inner ring had been cut
\* to three nodes, one of them new.
C8_Witness ==
    /\ event.kind = "set_cross_links"
    /\ event.text = <<" ", " ">>
    /\ cfg.inner_nodes = <<"Data", "Knowledge", "Theory">>
    /\ Len(cfg.cross_links) = 15

\* Every entry of old is still in new at its place, with its ends
EntriesKept(old, new) ==
    /\ Len(new) >= Len(old)
    /\ \A k \in 1..Len(old) :
          new[k].source = old[k].source /\ new[k].target = old[k].target

\* The edge has an end that is no node of its ring
Stale(e, nodes) == e.source \notin Range(nodes) \/ e.target \notin Range(nodes)

\* c without its stale edges
Pruned(c) ==
    [c EXCEPT !.inner_edges = SelectSeq(@, LAMBDA e : ~Stale(e, c.inner_nodes)),
              !.outer_edges = SelectSeq(@, LAMBDA e : ~Stale(e, c.outer_nodes))]

\* The graph n holds the nodes of the two lists only, its edges join those
\* nodes, and it is the graph c gives without its stale edges
StaleIgnored(c, n) ==
    /\ {n.nodes[k].id : k \in 1..Len(n.nodes)} = Range(c.outer_nodes) \cup Range(c.inner_nodes)
    /\ Len(n.nodes) = Len(c.outer_nodes) + Len(c.inner_nodes)
    /\ \A k \in 1..Len(n.edges) :
          {n.edges[k].from, n.edges[k].to} \subseteq Range(c.outer_nodes) \cup Range(c.inner_nodes)
    /\ n = build_network(Pruned(c))

\* C9: outside an import no run removes an entry of inner_edges or
\* outer_edges (entries stay in place or are appended), and the built graph
\* has no node and no edge for a stale entry: it is the graph of the
\* configuration without its stale entries.
C9_StaleEdgesKeptAndIgnored ==
    [][/\ event'.kind # "import"
             => \A tier \in {"inner", "outer"} : EntriesKept(Edges(cfg, tier), Edges(cfg', tier))
       /\ StaleIgnored(cfg', net')]_vars

\* After an order update and one more edit, an edge of a removed node is
\* still stored.
C9_Witness ==
    /\ runs = 3
    /\ event.kind = "edge"
    /\ \E k \in 1..Len(cfg.inner_edges) :
          /\ Stale(cfg.inner_edges[k], cfg.inner_nodes)
          /\ cfg.inner_edges[k].label = "Processed as"

\* The label of the ring edge the graph n draws between u and v
RingLabelBetween(n, u, v) ==
    LET hits == {k \in 1..Len(n.edges) :
                    /\ ~n.edges[k].dashes
                    /\ {n.edges[k].from, n.edges[k].to} = {u, v}}
    IN {n.edges[k].label : k \in hits}

\* C10: from the default configuration, a label entered in the editor field
\* of the ring edge between adjacent nodes u and v is the label of the ring
\* edge the same run draws between u and v.
C10_EdgeLabelEditShown ==
    (runs = 2 /\ event.kind = "edge")
    => LET nodes == Nodes(cfg, event.tier)
           u == nodes[event.index]
           v == nodes[(event.index % Len(nodes)) + 1]
       IN RingLabelBetween(net, u, v) = {event.value}

=============================================================================
